---------------------------- MODULE Spec2Model ----------------------------
(***************************************************************************)
(* A model of app_temperatur.py: the n-gram Markov engine of the           *)
(* "Eigenes Sprachmodell" app (tokenizer, transition-table builder, table  *)
(* projection, temperature sampler, seed validation, sentence generator    *)
(* and the "Saetze erzeugen" button handler).                               *)
(*                                                                         *)
(* Python str values are sequences of one-character strings, so that       *)
(* lower(), strip(), split(), the token regex and " ".join are computed    *)
(* and not assumed.  A Counter / dict is a sequence of <<key, value>>      *)
(* entries in insertion order, as CPython keeps them.                      *)
(***************************************************************************)
EXTENDS Integers, Sequences, FiniteSets, TLC

VARIABLES
    woerter,              \* module level: text_zu_woertern(text)
    anzahl_vorher,        \* module level: 1 (2-Gram) or 2 (3-Gram)
    uebergaenge,          \* module level: context -> Counter
    gesamt,               \* module level: context -> int
    df,                   \* module level: tabelle_bauen(uebergaenge, gesamt)
    zufall,               \* sidebar slider "Temperatur"
    max_woerter,          \* sidebar "Maximale Woerter pro Satz"
    anzahl_saetze,        \* sidebar "Anzahl Saetze"
    satzanfang_text,      \* sidebar "Satzanfang (optional)"
    rng,                  \* random.Random: number of values drawn from it so far
    generated_sentences,  \* st.session_state.generated_sentences
    angezeigt,            \* the message st.error last showed ("" = none)
    pc,                   \* where the running call stands
    aufrufer,             \* who called satz_erzeugen: "button" or "direkt"
    rest,                 \* calls the button handler's for loop still has to make
    cnt,                  \* local of satz_erzeugen / argument of waehle_naechstes
    naechstes,            \* local of satz_erzeugen / result of waehle_naechstes
    start,                \* local of satz_erzeugen
    ausgabe,              \* local of satz_erzeugen
    fehler,               \* local of satz_erzeugen
    vorher,               \* local of satz_erzeugen
    schritt,              \* local of satz_erzeugen: iterations of the for loop begun
    rng0,                 \* history: rng when the running call was entered
    ergebnis              \* the value the last call returned

vars == << woerter, anzahl_vorher, uebergaenge, gesamt, df, zufall, max_woerter,
           anzahl_saetze, satzanfang_text, rng, generated_sentences, angezeigt,
           pc, aufrufer, rest, cnt, naechstes, start, ausgabe, fehler, vorher,
           schritt, rng0, ergebnis >>

-----------------------------------------------------------------------------
(* Bounds of the model *)

MaxText == 4        \* characters of a training text (builder specification)
MaxGenText == 3     \* characters of a training text (generator specification)
MaxSeed == 3        \* characters of a "Satzanfang" input
MaxTokens == 2      \* largest max_woerter
MaxSaetze == 2      \* largest anzahl_saetze
MaxCount == 2       \* largest count in a Counter handed to the sampler
MaxKeys == 3        \* most keys in a Counter handed to the sampler
RngRange == 4       \* resolution of one value drawn from the random source

-----------------------------------------------------------------------------
(* Strings *)

PUNKT == << "." >>
START == << "<", "S", "T", "A", "R", "T", ">" >>

\* the characters the inputs are drawn from
TextChars == { "a", "B", ".", "!", " " }

Strings(chars, n) == UNION { [1..m -> chars] : m \in 0..n }

\* [A-Za-z...0-9], restricted to the characters that occur
Alnum == { "a", "b", "A", "B", "S", "T", "R" }
Satzzeichen == { ".", "!", "?" }
Leerraum == { " " }

\* str.lower, character by character
LowerChar(c) ==
    CASE c = "A" -> "a"
      [] c = "B" -> "b"
      [] c = "S" -> "s"
      [] c = "T" -> "t"
      [] c = "R" -> "r"
      [] OTHER -> c

Lower(s) == [ j \in 1..Len(s) |-> LowerChar(s[j]) ]

\* code points, for the comparison of str values
Ord(c) ==
    CASE c = " " -> 32 [] c = "!" -> 33 [] c = "." -> 46 [] c = "<" -> 60
      [] c = ">" -> 62 [] c = "?" -> 63 [] c = "A" -> 65 [] c = "B" -> 66
      [] c = "R" -> 82 [] c = "S" -> 83 [] c = "T" -> 84 [] c = "a" -> 97
      [] c = "b" -> 98 [] c = "r" -> 114 [] c = "s" -> 115 [] c = "t" -> 116

RECURSIVE StrLess(_, _)
StrLess(s, t) ==
    IF t = << >> THEN FALSE
    ELSE IF s = << >> THEN TRUE
    ELSE IF s[1] # t[1] THEN Ord(s[1]) < Ord(t[1])
    ELSE StrLess(Tail(s), Tail(t))

\* sep.join(teile)
RECURSIVE Join(_, _)
Join(sep, teile) ==
    IF teile = << >> THEN << >>
    ELSE IF Len(teile) = 1 THEN teile[1]
    ELSE teile[1] \o sep \o Join(sep, Tail(teile))

\* str.strip()
RECURSIVE LStrip(_)
LStrip(s) == IF s # << >> /\ s[1] \in Leerraum THEN LStrip(Tail(s)) ELSE s

RECURSIVE RStrip(_)
RStrip(s) ==
    IF s # << >> /\ s[Len(s)] \in Leerraum THEN RStrip(SubSeq(s, 1, Len(s) - 1)) ELSE s

Strip(s) == RStrip(LStrip(s))

\* the end of the maximal run of characters of `klasse` that starts at s[j]
RECURSIVE RunEnd(_, _, _)
RunEnd(s, j, klasse) ==
    IF j < Len(s) /\ s[j + 1] \in klasse THEN RunEnd(s, j + 1, klasse) ELSE j

\* str.split(): the maximal runs of non-whitespace
RECURSIVE SplitFrom(_, _)
SplitFrom(s, j) ==
    IF j > Len(s) THEN << >>
    ELSE IF s[j] \in Leerraum THEN SplitFrom(s, j + 1)
    ELSE LET e == RunEnd(s, j, { s[x] : x \in 1..Len(s) } \ Leerraum)
         IN  << SubSeq(s, j, e) >> \o SplitFrom(s, e + 1)

Split(s) == SplitFrom(s, 1)

-----------------------------------------------------------------------------
(* text_zu_woertern *)

\* TOKEN_RE.findall(text) from position j on
RECURSIVE FindAll(_, _)
FindAll(text, j) ==
    IF j > Len(text) THEN << >>
    ELSE IF text[j] \in Alnum
         THEN LET e == RunEnd(text, j, Alnum)
              IN  << SubSeq(text, j, e) >> \o FindAll(text, e + 1)
    ELSE IF text[j] \in Satzzeichen
         THEN << << text[j] >> >> \o FindAll(text, j + 1)
    ELSE FindAll(text, j + 1)

text_zu_woertern(text) ==
    LET teile == FindAll(text, 1)
    IN  [ j \in 1..Len(teile) |->
            IF teile[j] \in { << "." >>, << "!" >>, << "?" >> }
            THEN PUNKT
            ELSE Lower(teile[j]) ]

-----------------------------------------------------------------------------
(* dict and Counter: sequences of <<key, value>> in insertion order *)

Keys(d) == { d[j][1] : j \in 1..Len(d) }

KeyList(d) == [ j \in 1..Len(d) |-> d[j][1] ]

Values(d) == [ j \in 1..Len(d) |-> d[j][2] ]

\* d.get(key, default)
Get(d, key, default) ==
    IF key \in Keys(d)
    THEN d[CHOOSE j \in 1..Len(d) : d[j][1] = key][2]
    ELSE default

\* d[key] = value
Put(d, key, value) ==
    IF key \in Keys(d)
    THEN [ j \in 1..Len(d) |-> IF d[j][1] = key THEN << key, value >> ELSE d[j] ]
    ELSE Append(d, << key, value >>)

-----------------------------------------------------------------------------
(* baue_uebergaenge *)

StartTupel(k) == [ j \in 1..k |-> START ]

\* lines 45-49: START at the beginning and after every PUNKT
RECURSIVE SeqBauen(_, _, _)
SeqBauen(seq, ws, k) ==
    IF ws = << >> THEN seq
    ELSE LET w == ws[1]
             mit == Append(seq, w)
         IN  SeqBauen(IF w = PUNKT THEN mit \o StartTupel(k) ELSE mit, Tail(ws), k)

\* uebergaenge[v][n] += 1 on a defaultdict(Counter)
Erhoehe(ueb, v, n) ==
    LET alt == Get(ueb, v, << >>)
    IN  Put(ueb, v, Put(alt, n, Get(alt, n, 0) + 1))

\* mutant of ErhoeheGesamt: `gesamt[v] = 1`
GesamtAufEins(ges, v) == Put(ges, v, 1)

\* gesamt[v] += 1 on a defaultdict(int)
ErhoeheGesamt(ges, v) == Put(ges, v, Get(ges, v, 0) + 1)

\* lines 54-58, from 1-based position p of seq on; the pair <<uebergaenge, gesamt>>
RECURSIVE Zaehlen(_, _, _, _)
Zaehlen(seq, k, p, paar) ==
    IF p > Len(seq) THEN paar
    ELSE LET v == SubSeq(seq, p - k, p - 1)
             n == seq[p]
         IN  Zaehlen(seq, k, p + 1, << Erhoehe(paar[1], v, n), ErhoeheGesamt(paar[2], v) >>)

baue_uebergaenge(ws, k) ==
    LET seq == SeqBauen(StartTupel(k), ws, k)
    IN  Zaehlen(seq, k, k + 1, << << >>, << >> >>)

-----------------------------------------------------------------------------
(* tabelle_bauen *)

\* anzahl / total if total else 0.0, kept as the fraction <<numerator, denominator>>
Anteil(anzahl, total) == IF total # 0 THEN << anzahl, total >> ELSE << 0, 1 >>

AnteilGroesser(p, q) == p[1] * q[2] > q[1] * p[2]

\* the rows of one context, in the Counter's order
ZeilenVon(v, c, total) ==
    [ j \in 1..Len(c) |->
        [ Vorher |-> Join(<< " " >>, v),
          Naechstes |-> c[j][1],
          Wahrscheinlichkeit |-> Anteil(c[j][2], total) ] ]

RECURSIVE Zeilen(_, _, _)
Zeilen(ueb, ges, j) ==
    IF j > Len(ueb) THEN << >>
    ELSE ZeilenVon(ueb[j][1], ueb[j][2], Get(ges, ueb[j][1], 0)) \o Zeilen(ueb, ges, j + 1)

\* sort_values(["Vorher", "Wahrscheinlichkeit"], ascending=[True, False])
ZeileVor(r, s) ==
    \/ StrLess(r.Vorher, s.Vorher)
    \/ r.Vorher = s.Vorher /\ AnteilGroesser(r.Wahrscheinlichkeit, s.Wahrscheinlichkeit)

RECURSIVE Einsortieren(_, _)
Einsortieren(sortiert, r) ==
    IF sortiert = << >> THEN << r >>
    ELSE IF ZeileVor(r, sortiert[1]) THEN << r >> \o sortiert
    ELSE << sortiert[1] >> \o Einsortieren(Tail(sortiert), r)

RECURSIVE SortValues(_, _)
SortValues(sortiert, zeilen) ==
    IF zeilen = << >> THEN sortiert
    ELSE SortValues(Einsortieren(sortiert, zeilen[1]), Tail(zeilen))

tabelle_bauen(ueb, ges) == SortValues(<< >>, Zeilen(ueb, ges, 1))

-----------------------------------------------------------------------------
(* waehle_naechstes.  r in 0..RngRange-1 is the value the call draws from   *)
(* rng: random() lies in [r/RngRange, (r+1)/RngRange).                      *)

RECURSIVE Maximum(_)
Maximum(zahlen) ==
    IF Len(zahlen) = 1 THEN zahlen[1]
    ELSE LET m == Maximum(Tail(zahlen))
         IN  IF zahlen[1] >= m THEN zahlen[1] ELSE m

\* [w for w, c in cnt.items() if c == best]
RECURSIVE BesteWoerter(_, _)
BesteWoerter(c, best) ==
    IF c = << >> THEN << >>
    ELSE (IF c[1][2] = best THEN << c[1][1] >> ELSE << >>) \o BesteWoerter(Tail(c), best)

\* rng.choice(liste)
Choice(liste, r) == liste[((r * Len(liste)) \div RngRange) + 1]

\* (1 - alpha) * haeufigkeit + alpha * 1 with alpha = zufall / 100.0, times 100
Gewicht(haeufigkeit, z) == (100 - z) * haeufigkeit + z

RECURSIVE Summe(_)
Summe(zahlen) == IF zahlen = << >> THEN 0 ELSE zahlen[1] + Summe(Tail(zahlen))

\* rng.choices(moeglich, weights=weights, k=1)[0]: bisect of random() * total
\* in the cumulative weights
Choices(moeglich, weights, r) ==
    LET total == Summe(weights)
        cum(j) == Summe(SubSeq(weights, 1, j))
        treffer == { j \in 1..Len(moeglich) : cum(j) * RngRange > r * total }
    IN  moeglich[CHOOSE j \in treffer : \A x \in treffer : j <= x]

\* mutant of WaehleBestes: the counts are ignored
WaehleIrgendeins(c, r) == Choice(KeyList(c), r)

\* lines 95-98
WaehleBestes(c, r) == Choice(BesteWoerter(c, Maximum(Values(c))), r)

waehle_naechstes(c, z, r) ==
    LET moeglich == KeyList(c)
    IN  IF moeglich = << >> THEN PUNKT
        ELSE IF z <= 0 THEN WaehleBestes(c, r)
        ELSE IF z >= 100 THEN Choice(moeglich, r)
        ELSE Choices(moeglich, [ j \in 1..Len(c) |-> Gewicht(c[j][2], z) ], r)

\* whether the call draws from rng at all (line 92 returns before any draw)
Zieht(c) == c # << >>

-----------------------------------------------------------------------------
(* satzanfang_zu_start *)

FehlerPunkt == "Im Satzanfang ist ein Punkt nicht erlaubt."

FehlerLaenge(k) ==
    IF k = 1
    THEN "Fuer dieses Modell musst du genau 1 Wort/Woerter als Satzanfang eingeben."
    ELSE "Fuer dieses Modell musst du genau 2 Wort/Woerter als Satzanfang eingeben."

\* line 131: "." in woerter
PunktIn(ws) == \E j \in 1..Len(ws) : ws[j] = << "." >>

\* <<start, bereits_ausgabe, fehlermeldung>>
satzanfang_zu_start(satzanfang, k) ==
    IF Strip(satzanfang) = << >> THEN << StartTupel(k), << >>, "" >>
    ELSE LET ws == Split(Strip(Lower(satzanfang)))
         IN  IF PunktIn(ws) THEN << StartTupel(k), << >>, FehlerPunkt >>
             ELSE IF Len(ws) # k THEN << StartTupel(k), << >>, FehlerLaenge(k) >>
             ELSE << ws, ws, "" >>

-----------------------------------------------------------------------------
(* satz_erzeugen, its parts *)

\* lines 159-162: <<cnt, vorher>> after the lookup and the dead-end reset
Nachschlagen(ueb, v, st) ==
    LET c == Get(ueb, v, << >>)
    IN  IF c = << >>
        THEN << Get(ueb, st, << << PUNKT, 1 >> >>), st >>
        ELSE << c, v >>

\* mutant of Verwerfen: a leading PUNKT is kept
NieVerwerfen(aus, n) == FALSE

\* line 167: a sentence must not start with PUNKT
Verwerfen(aus, n) == aus = << >> /\ n = PUNKT

\* lines 174-177
Fenster(k, v, n) == IF k = 1 THEN << n >> ELSE << v[Len(v)], n >>

\* mutant of NaechsterSchritt: `continue` does not use up an iteration
SchrittOhneVerwurf(s, verworfen) == IF verworfen THEN s ELSE s + 1

\* mutant of NaechsterSchritt: a loop whose counter is never advanced
SchrittBleibt(s, verworfen) == s

\* line 158: the for loop takes the next element of range(max_woerter) for
\* every iteration it begins, the ones left by `continue` included
NaechsterSchritt(s, verworfen) == s + 1

\* mutant of PunktAnhaengen: no PUNKT is forced
PunktNieAnhaengen(aus) == aus

\* lines 183-184
PunktAnhaengen(aus) ==
    IF aus # << >> /\ aus[Len(aus)] # PUNKT THEN Append(aus, PUNKT) ELSE aus

\* lines 187-195
RECURSIVE Zusammenziehen(_, _)
Zusammenziehen(s, aus) ==
    IF aus = << >> THEN s
    ELSE LET w == aus[1]
         IN  Zusammenziehen(
                 IF w = PUNKT
                 THEN IF s # << >>
                      THEN [ s EXCEPT ![Len(s)] = s[Len(s)] \o PUNKT ]
                      ELSE Append(s, PUNKT)
                 ELSE Append(s, w),
                 Tail(aus))

\* lines 187-196
Rendern(aus) == Join(<< " " >>, Zusammenziehen(<< >>, aus))

\* mutant of FruehesEnde: the message is ignored
NieFruehesEnde(f) == FALSE

\* line 153: `if fehler:`
FruehesEnde(f) == f # ""

\* mutant of Abbruch: the loop goes on after PUNKT
NieAbbruch(n) == FALSE

\* line 179: `if naechstes == PUNKT: break`
Abbruch(n) == n = PUNKT

-----------------------------------------------------------------------------
(* The inputs *)

Temperaturen == { 0, 50, 100 }

Ordnungen == { 1, 2 }

\* the "Satzanfang" inputs of the generator specification: none, blank, one
\* word, an upper-case word, a lone ".", a word with "." attached, two words,
\* a word and a lone "."
Satzanfaenge ==
    { << >>, << " " >>, << "a" >>, << "B" >>, << "." >>, << "a", "." >>,
      << "a", " ", "B" >>, << "a", " ", "." >> }

\* the Counters handed to the sampler: distinct keys, counts from 1 on
Woerter == { << "a" >>, << "b" >>, PUNKT }

Counters ==
    { c \in UNION { [1..m -> Woerter \X (1..MaxCount)] : m \in 0..MaxKeys } :
        \A x, y \in 1..Len(c) : x # y => c[x][1] # c[y][1] }

\* lines 299-307 of one run of the script with this text and order
Aufgebaut(text, k) ==
    LET paar == baue_uebergaenge(text_zu_woertern(text), k)
    IN  /\ woerter = text_zu_woertern(text)
        /\ anzahl_vorher = k
        /\ uebergaenge = paar[1]
        /\ gesamt = paar[2]
        /\ df = tabelle_bauen(paar[1], paar[2])

\* nothing has been called yet
Ruhe ==
    /\ rng = 0
    /\ generated_sentences = << >>
    /\ angezeigt = ""
    /\ aufrufer = "niemand"
    /\ rest = 0
    /\ cnt = << >>
    /\ naechstes = << >>
    /\ start = << >>
    /\ ausgabe = << >>
    /\ fehler = ""
    /\ vorher = << >>
    /\ schritt = 0
    /\ rng0 = 0
    /\ ergebnis = << >>

modell == << woerter, anzahl_vorher, uebergaenge, gesamt, df >>

regler == << zufall, max_woerter, anzahl_saetze, satzanfang_text >>

lokal == << cnt, naechstes, start, ausgabe, fehler, vorher, schritt, rng0 >>

-----------------------------------------------------------------------------
(* The generator: the button handler and satz_erzeugen *)

Init ==
    /\ \E text \in Strings(TextChars, MaxGenText), k \in Ordnungen : Aufgebaut(text, k)
    /\ zufall \in Temperaturen
    /\ max_woerter \in 0..MaxTokens
    /\ anzahl_saetze \in 1..MaxSaetze
    /\ satzanfang_text \in Satzanfaenge
    /\ pc = "idle"
    /\ Ruhe

\* lines 355-362: the handler validates first and only then clears the list
Klick ==
    /\ pc = "idle"
    /\ LET f == satzanfang_zu_start(satzanfang_text, anzahl_vorher)[3]
       IN  IF f # ""
           THEN /\ angezeigt' = f
                /\ pc' = "fertig"
                /\ UNCHANGED << generated_sentences, aufrufer, rest >>
           ELSE /\ generated_sentences' = << >>
                /\ aufrufer' = "button"
                /\ rest' = anzahl_saetze
                /\ pc' = "aufruf"
                /\ UNCHANGED angezeigt
    /\ UNCHANGED << modell, regler, lokal, rng, ergebnis >>

\* satz_erzeugen called on its own, by a caller that has not validated the input
Direkt ==
    /\ pc = "idle"
    /\ aufrufer' = "direkt"
    /\ rest' = 1
    /\ pc' = "aufruf"
    /\ UNCHANGED << modell, regler, lokal, rng, ergebnis, generated_sentences, angezeigt >>

\* lines 152-156
Eintritt ==
    /\ pc = "aufruf"
    /\ LET t == satzanfang_zu_start(satzanfang_text, anzahl_vorher)
       IN  /\ start' = t[1]
           /\ ausgabe' = t[2]
           /\ fehler' = t[3]
           /\ IF FruehesEnde(t[3])
              THEN /\ ergebnis' = << >>
                   /\ vorher' = << >>
                   /\ pc' = "zurueck"
              ELSE /\ vorher' = t[1]
                   /\ pc' = "schleife"
                   /\ UNCHANGED ergebnis
    /\ cnt' = << >>
    /\ naechstes' = << >>
    /\ schritt' = 0
    /\ rng0' = rng
    /\ UNCHANGED << modell, regler, rng, generated_sentences, angezeigt, aufrufer, rest >>

\* lines 158-180: one iteration of the for loop
Iteration ==
    /\ pc = "schleife"
    /\ schritt < max_woerter
    /\ \E r \in 0..(RngRange - 1) :
         LET nl == Nachschlagen(uebergaenge, vorher, start)
             n == waehle_naechstes(nl[1], zufall, r)
             weg == Verwerfen(ausgabe, n)
         IN  /\ cnt' = nl[1]
             /\ naechstes' = n
             /\ rng' = IF Zieht(nl[1]) THEN rng + 1 ELSE rng
             /\ schritt' = NaechsterSchritt(schritt, weg)
             /\ IF weg
                THEN /\ vorher' = start
                     /\ pc' = "schleife"
                     /\ UNCHANGED ausgabe
                ELSE /\ ausgabe' = Append(ausgabe, n)
                     /\ vorher' = Fenster(anzahl_vorher, nl[2], n)
                     /\ pc' = IF Abbruch(n) THEN "nachlauf" ELSE "schleife"
    /\ UNCHANGED << modell, regler, start, fehler, rng0, ergebnis,
                    generated_sentences, angezeigt, aufrufer, rest >>

\* lines 182-196, after the break or after the last iteration
Abschluss ==
    /\ \/ pc = "nachlauf"
       \/ pc = "schleife" /\ schritt >= max_woerter
    /\ ausgabe' = PunktAnhaengen(ausgabe)
    /\ ergebnis' = Rendern(ausgabe')
    /\ pc' = "zurueck"
    /\ UNCHANGED << modell, regler, cnt, naechstes, start, fehler, vorher, schritt,
                    rng0, rng, generated_sentences, angezeigt, aufrufer, rest >>

\* lines 364 and 373: the handler keeps the sentence and loops
Weiter ==
    /\ pc = "zurueck"
    /\ generated_sentences' =
           IF aufrufer = "button"
           THEN Append(generated_sentences, ergebnis)
           ELSE generated_sentences
    /\ rest' = rest - 1
    /\ pc' = IF rest' > 0 THEN "aufruf" ELSE "fertig"
    /\ UNCHANGED << modell, regler, lokal, rng, ergebnis, angezeigt, aufrufer >>

Next == Klick \/ Direkt \/ Eintritt \/ Iteration \/ Abschluss \/ Weiter

Spec == Init /\ [][Next]_vars

-----------------------------------------------------------------------------
(* The builder alone: a run of the script builds woerter, the model and the *)
(* table from the text area and the order (lines 299-307)                   *)

InitBuild ==
    /\ Aufgebaut(<< >>, 1)
    /\ zufall = 0
    /\ max_woerter = MaxTokens
    /\ anzahl_saetze = 1
    /\ satzanfang_text = << >>
    /\ pc = "start"
    /\ Ruhe

Neuaufbau ==
    /\ pc = "start"
    /\ pc' = "idle"
    /\ \E text \in Strings(TextChars, MaxText), k \in Ordnungen :
         LET paar == baue_uebergaenge(text_zu_woertern(text), k)
         IN  /\ woerter' = text_zu_woertern(text)
             /\ anzahl_vorher' = k
             /\ uebergaenge' = paar[1]
             /\ gesamt' = paar[2]
             /\ df' = tabelle_bauen(paar[1], paar[2])
    /\ UNCHANGED << regler, lokal, rng, ergebnis, generated_sentences, angezeigt,
                    aufrufer, rest >>

SpecBuild == InitBuild /\ [][Neuaufbau]_vars

-----------------------------------------------------------------------------
(* The sampler alone *)

InitSampler ==
    /\ Aufgebaut(<< >>, 1)
    /\ zufall \in Temperaturen
    /\ max_woerter = MaxTokens
    /\ anzahl_saetze = 1
    /\ satzanfang_text = << >>
    /\ rng = 0
    /\ generated_sentences = << >>
    /\ angezeigt = ""
    /\ pc = "idle"
    /\ aufrufer = "niemand"
    /\ rest = 0
    /\ cnt \in Counters
    /\ naechstes = << >>
    /\ start = << >>
    /\ ausgabe = << >>
    /\ fehler = ""
    /\ vorher = << >>
    /\ schritt = 0
    /\ rng0 = 0
    /\ ergebnis = << >>

Waehlen ==
    /\ pc = "idle"
    /\ \E r \in 0..(RngRange - 1) : naechstes' = waehle_naechstes(cnt, zufall, r)
    /\ rng' = IF Zieht(cnt) THEN rng + 1 ELSE rng
    /\ pc' = "gewaehlt"
    /\ UNCHANGED << modell, regler, cnt, start, ausgabe, fehler, vorher, schritt, rng0,
                    ergebnis, generated_sentences, angezeigt, aufrufer, rest >>

SpecSampler == InitSampler /\ [][Waehlen]_vars

-----------------------------------------------------------------------------
(* The seed validation alone *)

InitSeed ==
    /\ \E k \in Ordnungen : Aufgebaut(<< >>, k)
    /\ zufall = 0
    /\ max_woerter = MaxTokens
    /\ anzahl_saetze = 1
    /\ satzanfang_text \in Strings(TextChars, MaxSeed)
    /\ pc = "idle"
    /\ Ruhe

Pruefen ==
    /\ pc = "idle"
    /\ LET t == satzanfang_zu_start(satzanfang_text, anzahl_vorher)
       IN  /\ start' = t[1]
           /\ ausgabe' = t[2]
           /\ fehler' = t[3]
    /\ pc' = "geprueft"
    /\ UNCHANGED << modell, regler, cnt, naechstes, vorher, schritt, rng0, rng,
                    ergebnis, generated_sentences, angezeigt, aufrufer, rest >>

SpecSeed == InitSeed /\ [][Pruefen]_vars

-----------------------------------------------------------------------------
(* Properties *)

Letztes(seq) == seq[Len(seq)]

Anzahl(seq, x) == Cardinality({ j \in 1..Len(seq) : seq[j] = x })

\* the words a valid "Satzanfang" puts into the buffer before the loop
Vorgabe == IF Strip(satzanfang_text) = << >> THEN 0 ELSE Len(Split(satzanfang_text))

\* a call of satz_erzeugen has returned a sentence (its validation passed)
SatzZurueck == pc = "zurueck" /\ fehler = ""

\* C1 as stated: the buffer of every successful generation with
\* max_woerter >= 1 ends with PUNKT (a PUNKT is forced whenever the loop runs
\* out without one).
C1_EndetImmerMitPunkt ==
    (SatzZurueck /\ max_woerter >= 1) =>
        (ausgabe # << >> /\ Letztes(ausgabe) = PUNKT)

\* C1 as amended: a returned buffer that is not empty ends with PUNKT and
\* holds exactly one PUNKT; a buffer that is still empty when the loop runs
\* out (no seed, nothing drawn but discarded PUNKTs) gets no PUNKT and the
\* call returns the empty string.
C1_PunktWennNichtLeer ==
    SatzZurueck =>
        IF ausgabe = << >>
        THEN /\ ergebnis = << >>
             /\ schritt = max_woerter
             /\ Vorgabe = 0
        ELSE /\ Letztes(ausgabe) = PUNKT
             /\ Anzahl(ausgabe, PUNKT) = 1

\* the loop ran out without a PUNKT and one was forced onto a non-empty buffer
C1_Witness ==
    /\ SatzZurueck
    /\ max_woerter >= 1
    /\ schritt = max_woerter
    /\ naechstes # PUNKT
    /\ Len(ausgabe) = Vorgabe + max_woerter + 1
    /\ Letztes(ausgabe) = PUNKT

\* the step of the loop that draws PUNKT while the buffer is still empty
Verwurf ==
    /\ pc = "schleife"
    /\ rng' = rng + 1
    /\ ausgabe = << >>
    /\ naechstes' = PUNKT

\* C2 as stated: a discarded leading PUNKT is not one of the max_woerter
\* iterations: as many tokens can be emitted after the discard as before.
C2_VerwurfZaehltNicht ==
    [][Verwurf => (max_woerter' - schritt' = max_woerter - schritt)]_vars

\* C2 as amended: a leading PUNKT is discarded and the context reset to the
\* start context, and the draw uses up one of the max_woerter iterations.
C2_VerwurfZaehlt ==
    [][Verwurf =>
        /\ schritt' = schritt + 1
        /\ max_woerter' = max_woerter
        /\ ausgabe' = << >>
        /\ vorher' = start
        /\ pc' = "schleife"]_vars

\* a leading PUNKT has just been discarded and iterations are left
C2_Witness ==
    /\ pc = "schleife"
    /\ ausgabe = << >>
    /\ naechstes = PUNKT
    /\ schritt >= 1
    /\ schritt < max_woerter
    /\ vorher = start

\* ". ! ?" anywhere in the input, alone or attached to a word
HatSatzzeichen(s) == \E j \in 1..Len(s) : s[j] \in Satzzeichen

\* C3: a non-blank seed that contains sentence punctuation, or whose number
\* of words differs from the order, is rejected: a message and no buffer.
C3_SeedAbgelehnt ==
    ( /\ pc = "geprueft"
      /\ Strip(satzanfang_text) # << >>
      /\ \/ HatSatzzeichen(satzanfang_text)
         \/ Len(Split(satzanfang_text)) # anzahl_vorher )
    => (fehler # "" /\ ausgabe = << >>)

\* the input of the running call fails the validation
Ungueltig == satzanfang_zu_start(satzanfang_text, anzahl_vorher)[3] # ""

\* C4: with an input that fails the validation, satz_erzeugen returns "" at
\* once, draws nothing from rng and leaves the model alone; the handler
\* shows the message, calls nothing and keeps the list.
C4_FailFast ==
    [][ /\ (pc = "aufruf" /\ Ungueltig) =>
              /\ pc' = "zurueck"
              /\ ergebnis' = << >>
              /\ ausgabe' = << >>
              /\ rng' = rng
              /\ modell' = modell
        /\ (pc = "idle" /\ Ungueltig) => aufrufer' # "button"
        /\ (pc = "idle" /\ Ungueltig /\ pc' # "aufruf") =>
              /\ pc' = "fertig"
              /\ angezeigt' # ""
              /\ rng' = rng
              /\ generated_sentences' = generated_sentences
              /\ modell' = modell
        /\ (pc = "zurueck" /\ fehler # "") => rng' = rng0
      ]_vars

\* satz_erzeugen has returned from an input that fails the validation
C4_Witness ==
    /\ pc = "zurueck"
    /\ fehler # ""
    /\ uebergaenge # << >>
    /\ max_woerter >= 1

\* the next-tokens of context v in the model
Folgende(v) == Keys(Get(uebergaenge, v, << >>))

\* C5: per stored context the next-token counts sum to gesamt[context],
\* which is the number of positions of the augmented sequence the context
\* precedes; no stored context is empty; no tokens, no model.
Erweitert(ws, k) ==
    LET stueck(j) == IF ws[j] = PUNKT THEN << ws[j] >> \o StartTupel(k) ELSE << ws[j] >>
        bis[j \in 0..Len(ws)] == IF j = 0 THEN StartTupel(k) ELSE bis[j - 1] \o stueck(j)
    IN  bis[Len(ws)]

Beobachtet(seq, k, v) ==
    Cardinality({ p \in (k + 1)..Len(seq) : SubSeq(seq, p - k, p - 1) = v })

C5_Zaehlinvariante ==
    LET seq == Erweitert(woerter, anzahl_vorher)
    IN  /\ \A j \in 1..Len(uebergaenge) :
             LET v == uebergaenge[j][1]
                 c == uebergaenge[j][2]
             IN  /\ Summe(Values(c)) = Get(gesamt, v, 0)
                 /\ Get(gesamt, v, 0) = Beobachtet(seq, anzahl_vorher, v)
                 /\ c # << >>
                 /\ \A x \in 1..Len(c) : c[x][2] >= 1
                 /\ \A x \in 1..Len(uebergaenge) : x # j => uebergaenge[x][1] # v
        /\ \A p \in (anzahl_vorher + 1)..Len(seq) :
             seq[p] \in Folgende(SubSeq(seq, p - anzahl_vorher, p - 1))
        /\ Keys(gesamt) = Keys(uebergaenge)
        /\ woerter = << >> => (uebergaenge = << >> /\ gesamt = << >>)

\* a 3-Gram model with a context seen twice, with two different next-tokens
C5_Witness ==
    /\ pc = "idle"
    /\ anzahl_vorher = 2
    /\ \E j \in 1..Len(uebergaenge) :
         /\ Len(uebergaenge[j][2]) = 2
         /\ Get(gesamt, uebergaenge[j][1], 0) = 2

\* C6: the first token of the buffer is never PUNKT.
C6_NiePunktVorn == ausgabe # << >> => ausgabe[1] # PUNKT

\* without a seed, a leading PUNKT was drawn and discarded and then a word
\* was emitted
C6_Witness ==
    /\ pc = "schleife"
    /\ Vorgabe = 0
    /\ ausgabe # << >>
    /\ schritt > Len(ausgabe)
    /\ PUNKT \in Folgende(start)

\* C7: with temperature <= 0 the sampler returns a token of maximal count.
C7_BestesWort ==
    (pc = "gewaehlt" /\ zufall <= 0 /\ cnt # << >>) =>
        /\ naechstes \in Keys(cnt)
        /\ \A j \in 1..Len(cnt) : cnt[j][2] <= Get(cnt, naechstes, 0)

\* temperature 0, a tie for the maximum broken in favour of the later key,
\* and a key of smaller count in the Counter
C7_Witness ==
    /\ pc = "gewaehlt"
    /\ zufall = 0
    /\ \E x, y \in 1..Len(cnt) :
         /\ x < y
         /\ cnt[x][2] = cnt[y][2]
         /\ naechstes = cnt[y][1]
    /\ \E x \in 1..Len(cnt) : cnt[x][2] < Get(cnt, naechstes, 0)

\* a call of satz_erzeugen is running or has just returned
ImAufruf == pc \in { "schleife", "nachlauf", "zurueck" }

\* C8: satz_erzeugen returns, after at most max_woerter draws, a buffer of
\* at most (seed words + max_woerter + 1) tokens.
C8_Schranken ==
    ImAufruf =>
        /\ schritt <= max_woerter
        /\ rng - rng0 <= max_woerter
        /\ Len(ausgabe) <= Vorgabe + max_woerter + 1

\* a call of satz_erzeugen has been made and has not returned
ImLauf == pc \in { "aufruf", "schleife", "nachlauf" }

\* the steps the running call can still take, at most
Rang ==
    CASE pc = "aufruf" -> max_woerter + 2
      [] pc = "schleife" -> (max_woerter - schritt) + 1
      [] pc = "nachlauf" -> 1
      [] OTHER -> 0

\* the running call can take its next step: inside the loop with iterations
\* left, every value drawn picks one of the candidates of the lookup
Schrittbereit ==
    \/ pc \in { "aufruf", "nachlauf" }
    \/ pc = "schleife" /\ schritt >= max_woerter
    \/ /\ pc = "schleife"
       /\ schritt < max_woerter
       /\ LET c == Nachschlagen(uebergaenge, vorher, start)[1]
          IN  \A r \in 0..(RngRange - 1) : waehle_naechstes(c, zufall, r) \in Keys(c)

\* the bounds hold, a running call can always take a step, and every step
\* of it lowers Rang, which is never negative: the call returns
C8_Terminiert ==
    /\ []C8_Schranken
    /\ [](ImLauf => (Rang >= 0 /\ Schrittbereit))
    /\ [][ImLauf => Rang' < Rang]_vars

\* every iteration drew and discarded a leading PUNKT, and the call returned
C8_Witness ==
    /\ SatzZurueck
    /\ max_woerter = MaxTokens
    /\ rng - rng0 = max_woerter
    /\ ausgabe = << >>
    /\ uebergaenge # << >>

\* C9: START is never a next-token of the model nor of a row of the table.
C9_StartNieNaechstes ==
    /\ \A j \in 1..Len(uebergaenge) : START \notin Keys(uebergaenge[j][2])
    /\ \A j \in 1..Len(df) : df[j].Naechstes # START

\* C10: with a valid or absent seed the buffer never holds START, holds no
\* PUNKT before its last place, and no context that holds PUNKT is looked up.
C10_NieStart ==
    fehler = "" =>
        /\ \A j \in 1..Len(ausgabe) : ausgabe[j] # START
        /\ \A j \in 1..(Len(ausgabe) - 1) : ausgabe[j] # PUNKT
        /\ pc = "schleife" => \A j \in 1..Len(vorher) : vorher[j] # PUNKT

\* a 3-Gram model that records START as a next-token, and a sentence of it
\* that ended with a drawn PUNKT
C10_Witness ==
    /\ SatzZurueck
    /\ anzahl_vorher = 2
    /\ \E j \in 1..Len(uebergaenge) : START \in Keys(uebergaenge[j][2])
    /\ naechstes = PUNKT
    /\ Len(ausgabe) >= 2
    /\ Letztes(ausgabe) = PUNKT

=============================================================================
